---- MODULE Spec2Model ----
(***************************************************************************)
(* Control plane of grout: PORT interfaces and the worker queue maps       *)
(* (modules/infra/control/port.c), VLAN sub-interfaces                     *)
(* (modules/infra/control/vlan.c) and the IPv4 next-hop table              *)
(* (modules/ip/control/nexthop.c).                                         *)
(*                                                                         *)
(* Every handler runs to completion on the single control thread, so a     *)
(* handler is one action.  The C functions are operators over a "world"    *)
(* record (the globals they touch) returning the new world, the return     *)
(* code and, for port reconfiguration, the worker queue maps observed at   *)
(* the points between unplug and plug.                                     *)
(***************************************************************************)
EXTENDS Integers, Sequences, FiniteSets, TLC

VARIABLES
    workers,      \* STAILQ workers: sequence of [cpu_id, rxqs, txqs]
    ifaces,       \* interface registry: id -> interface (live ids only)
    port_ifaces,  \* port.c port_ifaces[]: port_id -> iface id (set slots only)
    ethdevs,      \* DDF: valid port_id -> devargs of the probed device
    wide_shift,   \* what this build makes of 1 << q on an int when q >= 32
    last,         \* the last port handler call: operation, port, return code
    window,       \* queue maps seen inside the unplug..plug windows of that call
    faulted,      \* a call of the DDF or of the worker registry has failed in this run
    nh_hash,      \* nexthop.c nh_hash: ip -> index (present keys only)
    nh_array,     \* nexthop.c nh_array: index -> struct nexthop
    routes,       \* the route table: prefix -> next-hop index
    holds,        \* references taken with ip4_nexthop_incref by other holders
    pc,           \* where the control thread is inside lookup_add / decref
    vlan_hash,    \* vlan.c vlan_hash: <<parent_id, vlan_id>> -> iface id
    vlan_filters, \* DDF: the <<port_id, vlan_id>> VLAN filters that are enabled
    eth_addrs     \* the <<parent iface id, mac>> MAC filters installed on parents

portVars == <<workers, ifaces, port_ifaces, ethdevs, wide_shift, window>>

nhVars == <<nh_hash, nh_array, routes, holds, pc>>

vlanVars == <<vlan_hash, vlan_filters, eth_addrs>>

vars == <<workers, ifaces, port_ifaces, ethdevs, wide_shift, last, window, faulted,
          nh_hash, nh_array, routes, holds, pc, vlan_hash, vlan_filters, eth_addrs>>

----------------------------------------------------------------------------
(* Bounds of the model *)

\* port ids handed out by the DDF are 0..MaxEthPorts-1
MaxEthPorts == 2
\* interface ids are 0..MaxIfaces-1
MaxIfaces == 4
\* requested n_rxq ranges over 0..MaxRxq
MaxRxq == 2
\* cpus are 0..NumCpus-1
NumCpus == 2
\* host addresses are 1..MaxHost (0 is the zero address)
MaxHost == 2
\* the next-hop table has MaxNextHops slots (MAX_NEXT_HOPS, scaled down)
MaxNextHops == 2
\* at most MaxHolds references per next hop are held outside the route table
MaxHolds == 1
\* at most MaxVlans VLAN interfaces are live at a time
MaxVlans == 2
\* requested VLAN tags are 1..MaxVlanId
MaxVlanId == 2

----------------------------------------------------------------------------
(* Return codes *)

OK == "0"
EIO == "EIO"
EEXIST == "EEXIST"
EIDRM == "EIDRM"
ENODEV == "ENODEV"
ENOMEM == "ENOMEM"
ENOSPC == "ENOSPC"
EINVAL == "EINVAL"
ENOENT == "ENOENT"
EBUSY == "EBUSY"
EMEDIUMTYPE == "EMEDIUMTYPE"
EADDRINUSE == "EADDRINUSE"
ENOTSUP == "ENOTSUP"

----------------------------------------------------------------------------
(* Environment: cpus, NUMA nodes, devices *)

SOCKET_ID_ANY == -1

PortIds == 0 .. (MaxEthPorts - 1)
IfaceIds == 0 .. (MaxIfaces - 1)
Cpus == 0 .. (NumCpus - 1)

\* libnuma: cpus alternate between two NUMA nodes
numa_node_of_cpu(cpu) == cpu % 2

\* the devices that can be probed, with the socket each sits on
DevSocket == [d0 |-> 0, d1 |-> 1, d2 |-> 0]

DevArgs == DOMAIN DevSocket

\* rte_eth_dev_socket_id(): SOCKET_ID_ANY for a port id that is not valid
rte_eth_dev_socket_id(w, port_id) ==
    IF port_id \in DOMAIN w.ethdevs THEN DevSocket[w.ethdevs[port_id]]
    ELSE SOCKET_ID_ANY

rte_eth_dev_is_valid_port(w, port_id) == port_id \in DOMAIN w.ethdevs

\* the element of a one-element set: Only({e(x) : x \in {v}}) is e with x bound
\* to v, the way a C local holds the result of one call
Only(S) == CHOOSE x \in S : TRUE

Min(S) == CHOOSE x \in S : \A y \in S : x <= y

Remove(f, k) == [x \in DOMAIN f \ {k} |-> f[x]]

Put(f, k, v) == [x \in DOMAIN f \cup {k} |-> IF x = k THEN v ELSE f[x]]

----------------------------------------------------------------------------
(* Reconfig attribute mask *)

BR_PORT_SET_N_RXQS == "N_RXQS"
BR_PORT_SET_N_TXQS == "N_TXQS"
BR_PORT_SET_Q_SIZE == "Q_SIZE"
BR_PORT_SET_MAC == "MAC"
BR_IFACE_SET_FLAGS == "FLAGS"
BR_IFACE_SET_MTU == "MTU"
BR_IFACE_SET_VRF == "VRF"
GR_VLAN_SET_PARENT == "VLAN_PARENT"
GR_VLAN_SET_VLAN == "VLAN_VLAN"
GR_VLAN_SET_MAC == "VLAN_MAC"

\* IFACE_SET_ALL (UINT64_MAX): every bit of the mask
IFACE_SET_ALL ==
    {BR_PORT_SET_N_RXQS, BR_PORT_SET_N_TXQS, BR_PORT_SET_Q_SIZE, BR_PORT_SET_MAC,
     BR_IFACE_SET_FLAGS, BR_IFACE_SET_MTU, BR_IFACE_SET_VRF,
     GR_VLAN_SET_PARENT, GR_VLAN_SET_VLAN, GR_VLAN_SET_MAC}

\* the masks a reconfig request is drawn from
PortMasks == {{}, {BR_PORT_SET_N_RXQS}, {BR_PORT_SET_N_TXQS}, {BR_IFACE_SET_MTU}}

----------------------------------------------------------------------------
(* Queue maps and stb_ds arrays *)

QueueMap(port_id, queue_id, enabled) ==
    [port_id |-> port_id, queue_id |-> queue_id, enabled |-> enabled]

\* arrdelswap(a, i): delete a[i] by moving the last element into its place
arrdelswap(a, i) ==
    IF i = Len(a) THEN SubSeq(a, 1, Len(a) - 1)
    ELSE [SubSeq(a, 1, Len(a) - 1) EXCEPT ![i] = a[Len(a)]]

\* the results a build can give to 1 << q on a 32-bit int when q >= 32, which
\* C leaves undefined: the count taken modulo 32 (x86 shl), or all bits
\* shifted out
WideShifts == {"mask", "zero"}

\* 1 << q on a 32-bit int, widened to the uint64_t rxq_ids: the set of bits
\* set. 1 << 31 is INT_MIN, which sign-extends to bits 31..63.
Shl1(q, wide) ==
    IF q < 31 THEN {q}
    ELSE IF q = 31 THEN 31 .. 63
    ELSE IF wide = "zero" THEN {}
    ELSE IF q % 32 = 31 THEN 31 .. 63
    ELSE {q % 32}

\* set the enabled flag of every queue map of port_id in one array
SetEnabled(a, port_id, enabled) ==
    [i \in 1 .. Len(a) |->
        IF a[i].port_id = port_id THEN [a[i] EXCEPT !.enabled = enabled] ELSE a[i]]

PlugUnplug(ws, port_id, enabled) ==
    [k \in 1 .. Len(ws) |->
        [ws[k] EXCEPT !.rxqs = SetEnabled(@, port_id, enabled),
                      !.txqs = SetEnabled(@, port_id, enabled)]]

\* port_unplug(port_id): every queue map of the port gets enabled = false
port_unplug(ws, port_id) == PlugUnplug(ws, port_id, FALSE)

\* port_plug(port_id): every queue map of the port gets enabled = true
port_plug(ws, port_id) == PlugUnplug(ws, port_id, TRUE)

\* the queue maps of port_id, of every worker
PortQmaps(ws, port_id) ==
    UNION {{ws[k].rxqs[i] : i \in {j \in 1 .. Len(ws[k].rxqs) : ws[k].rxqs[j].port_id = port_id}}
           \cup {ws[k].txqs[i] : i \in {j \in 1 .. Len(ws[k].txqs) : ws[k].txqs[j].port_id = port_id}}
           : k \in 1 .. Len(ws)}

\* what the datapath can observe at a point inside an unplug..plug window of
\* port_id: the enabled flags of the queue maps of that port
Snap(port_id, ws) ==
    [port_id |-> port_id, enabled |-> {q.enabled : q \in PortQmaps(ws, port_id)}]

----------------------------------------------------------------------------
(* Worker registry *)

worker_count(ws) == Len(ws)

WorkerCpus(ws) == {ws[k].cpu_id : k \in 1 .. Len(ws)}

\* worker_ensure_default(socket_id): nothing to do when a worker already
\* serves the socket; else a worker is created on the first free cpu of the
\* socket (of any socket for SOCKET_ID_ANY)
worker_ensure_default(ws, socket_id, fail) ==
    LET free == {c \in Cpus \ WorkerCpus(ws) :
                    socket_id = SOCKET_ID_ANY \/ numa_node_of_cpu(c) = socket_id}
    IN  IF \E k \in 1 .. Len(ws) :
              socket_id = SOCKET_ID_ANY \/ socket_id = numa_node_of_cpu(ws[k].cpu_id)
        THEN [workers |-> ws, ret |-> OK]
        ELSE IF fail = "worker_ensure_default" \/ free = {}
        THEN [workers |-> ws, ret |-> ENOMEM]
        ELSE [workers |-> Append(ws, [cpu_id |-> Min(free), rxqs |-> <<>>, txqs |-> <<>>]),
              ret |-> OK]

\* worker_destroy(cpu_id)
worker_destroy(ws, cpu_id) == SelectSeq(ws, LAMBDA wk : wk.cpu_id # cpu_id)

----------------------------------------------------------------------------
(* port_queue_assign *)

\* lines 98-104: drop every txq entry of the port from one worker
RECURSIVE txqs_del_port(_, _, _)
txqs_del_port(a, i, port_id) ==
    IF i > Len(a) THEN a
    ELSE IF a[i].port_id = port_id THEN txqs_del_port(arrdelswap(a, i), i, port_id)
    ELSE txqs_del_port(a, i + 1, port_id)

\* lines 109-121: note the rxqs the worker holds, drop those >= n_rxq
RECURSIVE rxqs_scan(_, _, _, _, _)
rxqs_scan(a, i, p, rxq_ids, wide) ==
    IF i > Len(a) THEN [rxqs |-> a, rxq_ids |-> rxq_ids]
    ELSE IF a[i].port_id = p.port_id
    THEN IF a[i].queue_id < p.n_rxq
         THEN rxqs_scan(a, i + 1, p, rxq_ids \cup Shl1(a[i].queue_id, wide), wide)
         ELSE rxqs_scan(arrdelswap(a, i), i, p, rxq_ids, wide)
    ELSE rxqs_scan(a, i + 1, p, rxq_ids, wide)

\* a tx queue map pushed already enabled, as the datapath must never see it
\* while the port is unplugged
tx_qmap_enabled(port_id, txq) == QueueMap(port_id, txq, TRUE)

\* the new tx queue map pushed to a worker (lines 93-97)
tx_qmap(port_id, txq) == QueueMap(port_id, txq, FALSE)

\* lines 92-125: the STAILQ_FOREACH over the workers, from worker k on
RECURSIVE assign_foreach(_, _, _, _, _, _, _)
assign_foreach(ws, k, p, socket_id, rxq_ids, default_worker, wide) ==
    IF k > Len(ws)
    THEN [workers |-> ws, rxq_ids |-> rxq_ids, default_worker |-> default_worker]
    ELSE LET txqs == Append(txqs_del_port(ws[k].txqs, 1, p.port_id),
                            tx_qmap(p.port_id, k - 1))
             scan == rxqs_scan(ws[k].rxqs, 1, p, rxq_ids, wide)
             dw == IF socket_id = SOCKET_ID_ANY
                      \/ socket_id = numa_node_of_cpu(ws[k].cpu_id)
                   THEN k ELSE default_worker
         IN  assign_foreach([ws EXCEPT ![k].txqs = txqs, ![k].rxqs = scan.rxqs],
                            k + 1, p, socket_id, scan.rxq_ids, dw, wide)

\* lines 127-136: push the rxqs nobody holds, in increasing order
RECURSIVE push_missing(_, _, _, _, _)
push_missing(rxqs, rxq, p, rxq_ids, wide) ==
    IF rxq >= p.n_rxq THEN rxqs
    ELSE IF rxq_ids \cap Shl1(rxq, wide) # {}
    THEN push_missing(rxqs, rxq + 1, p, rxq_ids, wide)
    ELSE push_missing(Append(rxqs, QueueMap(p.port_id, rxq, FALSE)), rxq + 1, p,
                      rxq_ids, wide)

\* port_queue_assign(p): p is [port_id, n_rxq, ...]
port_queue_assign(ws, p, socket_id, wide) ==
    Only({IF r.default_worker = 0 THEN r.workers  \* assert(default_worker != NULL)
          ELSE [r.workers EXCEPT ![r.default_worker].rxqs =
                                      push_missing(@, 0, p, r.rxq_ids, wide)]
          : r \in {assign_foreach(ws, 1, p, socket_id, {}, 0, wide)}})

----------------------------------------------------------------------------
(* port_configure and iface_port_reconfig *)

\* the DDF or worker call a handler may see fail
ReconfigFailPoints ==
    {"none", "worker_ensure_default", "rte_eth_dev_stop", "rte_eth_dev_configure",
     "rte_eth_dev_get_mtu", "rte_eth_dev_start"}

\* the DDF calls of port_configure made before port_queue_assign
ConfigureFailPoints == {"rte_eth_dev_configure"}

Res(w, ret, win) == [w |-> w, ret |-> ret, win |-> win]

\* port_configure(p), p the PORT interface id
port_configure(w, id, fail) ==
    LET p == w.ifaces[id]
        socket_id == rte_eth_dev_socket_id(w, p.port_id)
        ens == worker_ensure_default(w.workers, socket_id, fail)
    IN  IF ens.ret # OK THEN Res(w, ens.ret, <<>>)
        ELSE
        LET p1 == [p EXCEPT !.n_txq = worker_count(ens.workers),
                            !.n_rxq = IF p.n_rxq = 0 THEN 1 ELSE p.n_rxq]
            w1 == [w EXCEPT !.workers = ens.workers, !.ifaces[id] = p1]
            s1 == Snap(p.port_id, ens.workers)
        IN  IF fail \in ConfigureFailPoints THEN Res(w1, EIO, <<s1>>)
            ELSE
            Only({Res([w1 EXCEPT !.workers = ws2, !.ifaces[id].configured = TRUE],
                      OK, <<s1, Snap(p.port_id, ws2)>>)
                  : ws2 \in {port_queue_assign(w1.workers, p1, socket_id, w.wide_shift)}})

\* iface_port_reconfig(iface, set_attrs, api_info)
iface_port_reconfig(w, id, set_attrs, api, fail) ==
    LET p == w.ifaces[id]
        port_id == p.port_id
        valid == rte_eth_dev_is_valid_port(w, port_id)
        ws1 == port_unplug(w.workers, port_id)
        qattrs == set_attrs \cap {BR_PORT_SET_N_RXQS, BR_PORT_SET_N_TXQS, BR_PORT_SET_Q_SIZE}
        p1 == [p EXCEPT
                 !.n_rxq = IF BR_PORT_SET_N_RXQS \in set_attrs THEN api.n_rxq ELSE @,
                 !.n_txq = IF BR_PORT_SET_N_TXQS \in set_attrs THEN api.n_txq ELSE @,
                 !.configured = IF qattrs # {} THEN FALSE ELSE @]
        w1 == [w EXCEPT !.workers = ws1, !.ifaces[id] = p1]
        s1 == Snap(port_id, ws1)
        stopped == ~p1.configured
                   \/ set_attrs \cap {BR_IFACE_SET_FLAGS, BR_IFACE_SET_MTU, BR_PORT_SET_MAC} # {}
    IN  IF stopped /\ (fail = "rte_eth_dev_stop" \/ ~valid) THEN Res(w1, ENODEV, <<s1>>)
        ELSE
        Only({IF c.ret # OK THEN Res(c.w, c.ret, <<s1>> \o c.win)
              ELSE IF fail = "rte_eth_dev_get_mtu" \/ ~valid
              THEN Res(c.w, EIO, <<s1>> \o c.win)
              ELSE IF stopped /\ fail = "rte_eth_dev_start"
              THEN Res(c.w, EIO, <<s1>> \o c.win)
              ELSE Res([c.w EXCEPT !.workers = port_plug(@, port_id)], OK,
                       <<s1>> \o c.win \o <<Snap(port_id, c.w.workers)>>)
              : c \in {IF ~p1.configured THEN port_configure(w1, id, fail)
                       ELSE Res(w1, OK, <<>>)}})

----------------------------------------------------------------------------
(* Interface registry iteration, iface_port_fini, iface_port_init *)

GR_IFACE_TYPE_PORT == "PORT"
GR_IFACE_TYPE_VLAN == "VLAN"

NoIface == -1

\* iface_next(type_id, prev): the next live interface of the type, by id
iface_next(w, type_id, prev) ==
    LET S == {i \in DOMAIN w.ifaces : w.ifaces[i].type_id = type_id /\ i > prev}
    IN  IF S = {} THEN NoIface ELSE Min(S)

\* the DDF call of iface_port_fini that fails
FiniFailPoints == {"none", "rte_eth_dev_stop", "rte_dev_remove"}

\* the cascade reconfig (of interface id) in which a DDF call fails
NoCascadeFail == [id |-> NoIface, point |-> "none"]

CascadeFails ==
    {NoCascadeFail} \cup
    [id : IfaceIds, point : {"rte_eth_dev_stop", "rte_eth_dev_configure"}]

\* lines 339-344: drop every rxq entry of the port from one worker
RECURSIVE rxqs_del_port(_, _, _)
rxqs_del_port(a, i, port_id) ==
    IF i > Len(a) THEN a
    ELSE IF a[i].port_id = port_id THEN rxqs_del_port(arrdelswap(a, i), i, port_id)
    ELSE rxqs_del_port(a, i + 1, port_id)

\* lines 338-347: drop the port's rxqs, destroy the workers left without rxqs
RECURSIVE fini_foreach(_, _, _)
fini_foreach(ws, k, port_id) ==
    IF k > Len(ws) THEN ws
    ELSE LET rxqs == rxqs_del_port(ws[k].rxqs, 1, port_id)
         IN  IF Len(rxqs) = 0
             THEN fini_foreach(worker_destroy(ws, ws[k].cpu_id), k, port_id)
             ELSE fini_foreach([ws EXCEPT ![k].rxqs = rxqs], k + 1, port_id)

\* lines 350-355: reconfig(SET_N_TXQS, n_txq = 0) over the PORT interfaces
RECURSIVE fini_cascade(_, _, _, _)
fini_cascade(w, prev, cf, win) ==
    LET id == iface_next(w, GR_IFACE_TYPE_PORT, prev)
    IN  IF id = NoIface THEN Res(w, OK, win)
        ELSE Only({IF r.ret # OK THEN Res(r.w, r.ret, win \o r.win)
                   ELSE fini_cascade(r.w, id, cf, win \o r.win)
                   : r \in {iface_port_reconfig(w, id, {BR_PORT_SET_N_TXQS},
                                                [n_rxq |-> 0, n_txq |-> 0],
                                                IF cf.id = id THEN cf.point
                                                ELSE "none")}})

\* a fini that leaves the slot of the port in port_ifaces
port_ifaces_keep(pi, port_id) == pi

\* line 319: port_ifaces[port->port_id] = NULL
port_ifaces_clear(pi, port_id) == Remove(pi, port_id)

\* iface_port_fini(iface)
iface_port_fini(w, id, ffail, cf) ==
    LET port == w.ifaces[id]
        port_id == port.port_id
        valid == rte_eth_dev_is_valid_port(w, port_id)
        w1 == [w EXCEPT !.workers = port_unplug(@, port_id),
                        !.port_ifaces = port_ifaces_clear(@, port_id)]
        \* rte_eth_dev_close releases the port id, also when rte_dev_remove fails
        closed == valid /\ ffail \in {"none", "rte_dev_remove"}
        w2 == IF closed THEN [w1 EXCEPT !.ethdevs = Remove(@, port_id)] ELSE w1
    IN  IF ~valid THEN Res(w2, ENODEV, <<>>)
        ELSE IF ffail # "none" THEN Res(w2, EIO, <<>>)
        ELSE
        Only({IF worker_count(w3.workers) # worker_count(w2.workers)
              THEN fini_cascade(w3, NoIface, cf, <<>>)
              ELSE Res(w3, OK, <<>>)
              : w3 \in {[w2 EXCEPT !.workers = fini_foreach(@, 1, port_id)]}})

\* what port.init may see fail: the probe, or a step of its reconfig
InitFailPoints == ReconfigFailPoints \cup {"rte_dev_probe", "no_port"}

\* iface_port_init(iface, api_info)
iface_port_init(w, id, api, fail, ffail) ==
    LET free == PortIds \ DOMAIN w.ethdevs
    IN  IF \E q \in DOMAIN w.ethdevs : w.ethdevs[q] = api.devargs
        THEN Res(w, EEXIST, <<>>)
        ELSE IF fail = "rte_dev_probe" \/ free = {} THEN Res(w, EIO, <<>>)
        ELSE IF fail = "no_port" THEN Res(w, EIDRM, <<>>)
        ELSE
        LET port_id == Min(free)
            w1 == [w EXCEPT !.ethdevs = Put(@, port_id, api.devargs),
                            !.ifaces[id].port_id = port_id,
                            !.port_ifaces = Put(@, port_id, id)]
        IN  Only({IF r.ret # OK
                  THEN Only({Res(f.w, r.ret, r.win \o f.win)
                             : f \in {iface_port_fini(r.w, id, ffail, NoCascadeFail)}})
                  ELSE r
                  : r \in {iface_port_reconfig(w1, id, IFACE_SET_ALL, api, fail)}})

\* the zeroed info block of a new PORT interface
PortInfoZero ==
    [type_id |-> GR_IFACE_TYPE_PORT, port_id |-> 0, n_rxq |-> 0, n_txq |-> 0,
     configured |-> FALSE, subinterfaces |-> {}]

\* iface_create(PORT, api_info): fresh id, zeroed info, type.init; the id is
\* released again when init fails
iface_create_port(w, api, fail, ffail) ==
    LET free == IfaceIds \ DOMAIN w.ifaces
    IN  IF free = {} THEN Res(w, ENOSPC, <<>>) @@ [id |-> NoIface]
        ELSE
        LET id == Min(free)
            w1 == [w EXCEPT !.ifaces = Put(@, id, PortInfoZero)]
        IN  Only({IF r.ret # OK
                  THEN Res([r.w EXCEPT !.ifaces = Remove(@, id)], r.ret, r.win)
                       @@ [id |-> id]
                  ELSE r @@ [id |-> id]
                  : r \in {iface_port_init(w1, id, api, fail, ffail)}})

\* iface_destroy(id): type.fini, then the interface is freed and its id released
iface_destroy_port(w, id, ffail, cf) ==
    Only({Res([r.w EXCEPT !.ifaces = Remove(@, id)], r.ret, r.win)
          : r \in {iface_port_fini(w, id, ffail, cf)}})


----------------------------------------------------------------------------
(* IPv4 next-hop table (nexthop.c) *)

Hosts == 1 .. MaxHost
NhIdx == 0 .. (MaxNextHops - 1)

\* the host address that is the router's own
LocalHost == Min(Hosts)

MacZero == "00:00:00:00:00:00"
Macs == {MacZero, "aa:bb:cc:dd:ee:01"}

BR_IP4_NH_F_STATIC == "STATIC"
BR_IP4_NH_F_REACHABLE == "REACHABLE"
BR_IP4_NH_F_LOCAL == "LOCAL"
BR_IP4_NH_F_LINK == "LINK"

\* a zeroed struct nexthop
NhZero ==
    [ip |-> 0, iface_id |-> 0, lladdr |-> MacZero, flags |-> {}, ref_count |-> 0,
     last_seen |-> 0]

\* route prefixes: the /32 of every host and the default route
Prefix(ip, prefixlen) == <<ip, prefixlen>>

DefaultRoute == Prefix(0, 0)

Prefixes == {Prefix(h, 32) : h \in Hosts} \cup {DefaultRoute}

Out(t, ret) == [t |-> t, ret |-> ret]

NoIdx == -1

\* ip4_nexthop_lookup(ip, &idx, &nh): rte_hash_lookup
ip4_nexthop_lookup(t, ip) ==
    IF ip \in DOMAIN t.nh_hash THEN [ret |-> OK, idx |-> t.nh_hash[ip]]
    ELSE [ret |-> ENOENT, idx |-> NoIdx]

\* the indexes rte_hash_add_key can hand out: those no key holds
FreeIdx(t) == NhIdx \ {t.nh_hash[k] : k \in DOMAIN t.nh_hash}

\* rte_hash_add_key(nh_hash, &ip): the hash hands out its first free index,
\* or fails when every index is taken
rte_hash_add_key(t, ip) ==
    IF FreeIdx(t) = {} THEN [ret |-> ENOSPC, idx |-> NoIdx]
    ELSE [ret |-> OK, idx |-> Min(FreeIdx(t))]

\* lines 45-47: nh_idx = rte_hash_add_key(nh_hash, &ip)
lookup_add_insert(t, ip) ==
    LET k == rte_hash_add_key(t, ip)
    IN  IF k.ret # OK THEN Out(t, k.ret) @@ [idx |-> NoIdx]
        ELSE Out([t EXCEPT !.nh_hash = Put(@, ip, k.idx)], OK) @@ [idx |-> k.idx]

\* line 50: (*nh)->ip = ip
lookup_add_write(t, idx, ip) == [t EXCEPT !.nh_array[idx].ip = ip]

\* ip4_nexthop_lookup_add(ip, &idx, &nh)
ip4_nexthop_lookup_add(t, ip) ==
    LET l == ip4_nexthop_lookup(t, ip)
    IN  IF l.ret = OK THEN Out(t, OK) @@ [idx |-> l.idx]
        ELSE LET a == lookup_add_insert(t, ip)
             IN  IF a.ret # OK THEN a
                 ELSE Out(lookup_add_write(a.t, a.idx, ip), OK) @@ [idx |-> a.idx]

\* a decref that leaves the key of the freed next hop in the hash
decref_keep_key(t, idx) == t

\* line 57: rte_hash_del_key(nh_hash, &nh->ip)
decref_del_key(t, idx) == [t EXCEPT !.nh_hash = Remove(@, t.nh_array[idx].ip)]

\* a decref that frees the slot without clearing it
decref_no_zero(t, idx) == t

\* line 58: memset(nh, 0, sizeof(*nh))
decref_zero(t, idx) == [t EXCEPT !.nh_array[idx] = NhZero]

\* ip4_nexthop_decref(nh), nh = &nh_array[idx]
ip4_nexthop_decref(t, idx) ==
    IF t.nh_array[idx].ref_count <= 1 THEN decref_zero(decref_del_key(t, idx), idx)
    ELSE [t EXCEPT !.nh_array[idx].ref_count = @ - 1]

\* ip4_nexthop_incref(nh)
ip4_nexthop_incref(t, idx) == [t EXCEPT !.nh_array[idx].ref_count = @ + 1]

\* ip4_route_insert(ip, prefixlen, nh_idx, nh): bind the prefix to the next hop
\* and take a reference; fails when the route table refuses the prefix
ip4_route_insert(t, prefix, nh_idx, rfail) ==
    IF rfail THEN Out(t, ENOMEM)
    ELSE IF prefix \in DOMAIN t.routes THEN Out(t, EEXIST)
    ELSE Out(ip4_nexthop_incref([t EXCEPT !.routes = Put(@, prefix, nh_idx)], nh_idx), OK)

\* ip4_route_delete(ip, prefixlen): unbind the prefix and drop its reference
ip4_route_delete(t, prefix) ==
    IF prefix \notin DOMAIN t.routes THEN Out(t, ENOENT)
    ELSE Out(ip4_nexthop_decref([t EXCEPT !.routes = Remove(@, prefix)],
                                t.routes[prefix]), OK)

\* iface_from_id(id) != NULL
iface_known(ifs, id) == id \in DOMAIN ifs

\* an exist_ok test that does not compare the link-layer address
nh_same_iface(req, nh) ==
    req.exist_ok /\ req.iface_id = nh.iface_id

\* lines 82-83: the exist_ok test of nh4_add
nh_same(req, nh) ==
    req.exist_ok /\ req.iface_id = nh.iface_id /\ req.mac = nh.lladdr

\* nh4_add(request): req = [host, iface_id, mac, exist_ok]
nh4_add(t, ifs, req, rfail) ==
    IF req.host = 0 THEN Out(t, EINVAL)
    ELSE IF ~iface_known(ifs, req.iface_id) THEN Out(t, ENODEV)
    ELSE IF ip4_nexthop_lookup(t, req.host).ret = OK
    THEN IF nh_same(req, t.nh_array[t.nh_hash[req.host]]) THEN Out(t, OK)
         ELSE Out(t, EEXIST)
    ELSE
    LET a == ip4_nexthop_lookup_add(t, req.host)
    IN  IF a.ret # OK THEN Out(a.t, a.ret)
        ELSE
        LET t1 == [a.t EXCEPT
                     !.nh_array[a.idx].iface_id = req.iface_id,
                     !.nh_array[a.idx].lladdr = req.mac,
                     !.nh_array[a.idx].flags = {BR_IP4_NH_F_STATIC, BR_IP4_NH_F_REACHABLE}]
        IN  ip4_route_insert(t1, Prefix(t1.nh_array[a.idx].ip, 32), a.idx, rfail)

\* an EBUSY test that does not look at ref_count
nh_busy_flags(nh) ==
    nh.flags \cap {BR_IP4_NH_F_LOCAL, BR_IP4_NH_F_LINK} # {}

\* line 112: the EBUSY test of nh4_del
nh_busy(nh) ==
    nh.flags \cap {BR_IP4_NH_F_LOCAL, BR_IP4_NH_F_LINK} # {} \/ nh.ref_count > 1

\* nh4_del(request): req = [host, missing_ok]
nh4_del(t, req) ==
    LET l == ip4_nexthop_lookup(t, req.host)
    IN  IF l.ret # OK
        THEN IF l.ret = ENOENT /\ req.missing_ok THEN Out(t, OK) ELSE Out(t, l.ret)
        ELSE IF nh_busy(t.nh_array[l.idx]) THEN Out(t, EBUSY)
        ELSE ip4_route_delete(t, Prefix(req.host, 32))

\* nh4_list: one br_ip4_nh per hash entry, in the order rte_hash_iterate
\* walks the table (by index)
RECURSIVE nh4_list_from(_, _)
nh4_list_from(t, idx) ==
    IF idx >= MaxNextHops THEN <<>>
    ELSE IF idx \in {t.nh_hash[k] : k \in DOMAIN t.nh_hash}
    THEN <<[host |-> t.nh_array[idx].ip, iface_id |-> t.nh_array[idx].iface_id,
            mac |-> t.nh_array[idx].lladdr, flags |-> t.nh_array[idx].flags]>>
         \o nh4_list_from(t, idx + 1)
    ELSE nh4_list_from(t, idx + 1)

nh4_list(t) == nh4_list_from(t, 0)

PcIdle == [op |-> "idle", idx |-> NoIdx, ip |-> 0]

\* nh4_init: empty hash, zeroed array
InitNh ==
    /\ nh_hash = <<>>
    /\ nh_array = [i \in NhIdx |-> NhZero]
    /\ routes = <<>>
    /\ holds = [i \in NhIdx |-> 0]
    /\ pc = PcIdle

----------------------------------------------------------------------------
(* The port specification: port add, reconfig and delete requests *)

World == [workers |-> workers, ifaces |-> ifaces, port_ifaces |-> port_ifaces,
          ethdevs |-> ethdevs, wide_shift |-> wide_shift]

SetWorld(w) ==
    /\ workers' = w.workers
    /\ ifaces' = w.ifaces
    /\ port_ifaces' = w.port_ifaces
    /\ ethdevs' = w.ethdevs
    /\ wide_shift' = w.wide_shift

LastNone == [op |-> "none", port_id |-> 0, ret |-> OK]

InitPort ==
    /\ workers = <<>>
    /\ ifaces = <<>>
    /\ port_ifaces = <<>>
    /\ ethdevs = <<>>
    /\ wide_shift = "mask"  \* never read: the queue ids stay below 31
    /\ window = <<>>

InitVlan ==
    /\ vlan_hash = <<>>
    /\ vlan_filters = {}
    /\ eth_addrs = {}

Init ==
    /\ InitPort
    /\ InitNh
    /\ InitVlan
    /\ last = LastNone
    /\ faulted = FALSE

\* single-fault hypothesis: in a run at most one call of the DDF or of the
\* worker registry fails; points are the failures a handler call injects
Inject(points) ==
    LET failing == {k \in DOMAIN points : points[k] # "none"}
    IN  /\ failing # {} => (~faulted /\ Cardinality(failing) = 1)
        /\ faulted' = (faulted \/ failing # {})

PortIfaceIds == {i \in DOMAIN ifaces : ifaces[i].type_id = GR_IFACE_TYPE_PORT}

\* iface_create(PORT): port.init
PortInit(devargs, n_rxq, fail, ffail) ==
    /\ ffail = "none" \/ fail \notin {"none", "rte_dev_probe", "no_port"}
    /\ Inject(<<fail, ffail>>)
    /\ \E r \in {iface_create_port(World, [devargs |-> devargs, n_rxq |-> n_rxq,
                                             n_txq |-> 0], fail, ffail)} :
           /\ SetWorld(r.w)
           /\ UNCHANGED <<nhVars, vlanVars>>
           /\ window' = r.win
           /\ last' = [op |-> "port.init",
                       port_id |-> IF r.ret = OK THEN r.w.ifaces[r.id].port_id ELSE 0,
                       ret |-> r.ret]

\* iface_reconfig(id) on a PORT: port.reconfig
PortReconfig(id, set_attrs, n_rxq, fail) ==
    /\ id \in PortIfaceIds
    /\ n_rxq = 0 \/ BR_PORT_SET_N_RXQS \in set_attrs
    /\ Inject(<<fail>>)
    /\ \E r \in {iface_port_reconfig(World, id, set_attrs,
                                       [n_rxq |-> n_rxq, n_txq |-> 0], fail)} :
           /\ SetWorld(r.w)
           /\ UNCHANGED <<nhVars, vlanVars>>
           /\ window' = r.win
           /\ last' = [op |-> "port.reconfig", port_id |-> ifaces[id].port_id,
                       ret |-> r.ret]

\* iface_destroy(id) on a PORT: port.fini
PortFini(id, ffail, cf) ==
    /\ id \in PortIfaceIds
    /\ cf.id \in PortIfaceIds \cup {NoIface}
    /\ cf = NoCascadeFail \/ ffail = "none"
    /\ Inject(<<ffail, cf.point>>)
    /\ \E r \in {iface_destroy_port(World, id, ffail, cf)} :
           /\ SetWorld(r.w)
           /\ UNCHANGED <<nhVars, vlanVars>>
           /\ window' = r.win
           /\ last' = [op |-> "port.fini", port_id |-> ifaces[id].port_id,
                       ret |-> r.ret]

Next ==
    \/ \E devargs \in DevArgs, n_rxq \in 0 .. MaxRxq, fail \in InitFailPoints,
          ffail \in FiniFailPoints :
            PortInit(devargs, n_rxq, fail, ffail)
    \/ \E id \in IfaceIds, set_attrs \in PortMasks, n_rxq \in 0 .. MaxRxq,
          fail \in ReconfigFailPoints :
            PortReconfig(id, set_attrs, n_rxq, fail)
    \/ \E id \in IfaceIds, ffail \in FiniFailPoints, cf \in CascadeFails :
            PortFini(id, ffail, cf)

Spec == Init /\ [][Next]_vars

----------------------------------------------------------------------------
(* Properties of the port specification *)

\* the (worker, index) positions of the rxq entries of port_id holding queue q
RxqHolders(ws, port_id, q) ==
    {<<k, i>> \in (1 .. Len(ws)) \X (1 .. MaxRxq + 2) :
        /\ i <= Len(ws[k].rxqs)
        /\ ws[k].rxqs[i].port_id = port_id
        /\ ws[k].rxqs[i].queue_id = q}

\* the queue ids of the txq entries of port_id, read across the workers in order
RECURSIVE TxqList(_, _, _)
TxqList(ws, k, port_id) ==
    IF k > Len(ws) THEN <<>>
    ELSE LET mine == SelectSeq(ws[k].txqs, LAMBDA q : q.port_id = port_id)
         IN  [i \in 1 .. Len(mine) |-> mine[i].queue_id] \o TxqList(ws, k + 1, port_id)

\* C1: for every live PORT interface, the rxq entries of its port_id over all
\* workers hold each queue id of 0..n_rxq-1 exactly once and no other queue id,
\* after any sequence of successful or failed init, reconfig and fini calls.
C1_RxqExactlyOnce ==
    \A id \in PortIfaceIds :
        /\ \A q \in 0 .. (ifaces[id].n_rxq - 1) :
              Cardinality(RxqHolders(workers, ifaces[id].port_id, q)) = 1
        /\ \A q \in 0 .. MaxRxq :
              q >= ifaces[id].n_rxq => RxqHolders(workers, ifaces[id].port_id, q) = {}

\* C2: for every live PORT interface, the txq entries of its port_id read across
\* the workers are 0, 1, ..., worker_count-1 and its n_txq is worker_count.
C2_TxqPerWorker ==
    \A id \in PortIfaceIds :
        /\ TxqList(workers, 1, ifaces[id].port_id) = [k \in 1 .. Len(workers) |-> k - 1]
        /\ ifaces[id].n_txq = worker_count(workers)

\* C5: at every point between the unplug and the plug of a port.reconfig, every
\* rxq and txq map of the port, in every worker, has enabled = false.
C5_WindowAllDisabled ==
    \A k \in 1 .. Len(window) : window[k].enabled \subseteq {FALSE}

\* a port.reconfig went through port_configure and queue assignment, with queue
\* maps of the port to observe at each point of its window
C5_Witness ==
    /\ last.op = "port.reconfig"
    /\ last.ret = OK
    /\ Len(window) = 4
    /\ \A k \in 1 .. Len(window) : window[k].enabled # {}

\* C6: when a port.reconfig call returns, with success or with an error, every
\* queue map of the port has enabled = true again.
C6_ReconfigReturnsPlugged ==
    last.op = "port.reconfig" =>
        \A q \in PortQmaps(workers, last.port_id) : q.enabled

\* C13: for every PORT interface I with port_id p, port_ifaces[p] = I exactly
\* when I is live: after a failed port.init, and after port.fini whatever it
\* returns, no port_ifaces slot points to an interface that is not live and
\* no live PORT interface lacks its slot.
C13_PortIfacesLive ==
    /\ \A p \in DOMAIN port_ifaces :
          port_ifaces[p] \in PortIfaceIds /\ ifaces[port_ifaces[p]].port_id = p
    /\ \A i \in PortIfaceIds :
          ifaces[i].port_id \in DOMAIN port_ifaces /\ port_ifaces[ifaces[i].port_id] = i

\* a port.fini that returned an error: its interface is gone with its slot,
\* its device is still there, and the other port has its slot
C13_Witness ==
    /\ last.op = "port.fini" /\ last.ret # OK
    /\ Cardinality(PortIfaceIds) = 1
    /\ Cardinality(DOMAIN ethdevs) = 2
    /\ \A i \in PortIfaceIds : port_ifaces[ifaces[i].port_id] = i

\* the port.init requests that add a device not yet probed
C14_Reqs ==
    {api \in [devargs : DevArgs, n_rxq : 0 .. MaxRxq, n_txq : {0}] :
        \A q \in DOMAIN ethdevs : ethdevs[q] # api.devargs}

\* C14: port.init followed by port.fini of the same interface, from any
\* reachable state with other ports and workers present, returns the
\* Interface Registry to its pre-init state, with port.fini returning success
\* when the DDF stop, close and remove of its device succeed.
C14_InitFini ==
    \A api \in C14_Reqs :
        LET r1 == iface_create_port(World, api, "none", "none")
            r2 == iface_destroy_port(r1.w, r1.id, "none", NoCascadeFail)
        IN  r1.ret = OK => (r2.ret = OK /\ r2.w.ifaces = ifaces)

\* C23: after port.fini returns success no surviving worker holds a queue
\* map, rx or tx, with the port_id of the removed port, so a later port that
\* gets the same port_id inherits none.
C23_FiniLeavesNoQmap ==
    \A id \in PortIfaceIds :
        \A r \in {iface_destroy_port(World, id, "none", NoCascadeFail)} :
            r.ret = OK => PortQmaps(r.w.workers, ifaces[id].port_id) = {}

\* C24: once port.fini has stopped, closed and removed its device, no later
\* step of the same fini reconfigures that port or calls the DDF for it: the
\* cascade that follows the destruction of a worker reaches only the other
\* PORT interfaces, and after it each of them has n_txq equal to the new
\* worker count.
C24_CascadeSkipsRemoved ==
    \A id \in PortIfaceIds :
        rte_eth_dev_is_valid_port(World, ifaces[id].port_id) =>
            \A r \in {iface_port_fini(World, id, "none", NoCascadeFail)} :
                /\ \A k \in 1 .. Len(r.win) : r.win[k].port_id # ifaces[id].port_id
                /\ worker_count(r.w.workers) # worker_count(workers) =>
                       \A j \in PortIfaceIds \ {id} :
                           r.w.ifaces[j].n_txq = worker_count(r.w.workers)

----------------------------------------------------------------------------
(* The next-hop specification: nh_add, nh_del, the datapath-visible table   *)
(* operations and the route table, with two PORT interfaces present         *)

\* the state after port_add(d0) and port_add(d1)
EmptyWorld == [workers |-> <<>>, ifaces |-> <<>>, port_ifaces |-> <<>>, ethdevs |-> <<>>,
               wide_shift |-> "mask"]

TwoPorts ==
    iface_create_port(
        iface_create_port(EmptyWorld, [devargs |-> "d0", n_rxq |-> 1, n_txq |-> 0],
                          "none", "none").w,
        [devargs |-> "d1", n_rxq |-> 1, n_txq |-> 0], "none", "none").w

InitTwoPorts ==
    \E w \in {TwoPorts} :
        /\ workers = w.workers
        /\ ifaces = w.ifaces
        /\ port_ifaces = w.port_ifaces
        /\ ethdevs = w.ethdevs
        /\ wide_shift = w.wide_shift
        /\ window = <<>>

NhInit ==
    /\ InitTwoPorts
    /\ InitNh
    /\ InitVlan
    /\ last = LastNone
    /\ faulted = FALSE

Table == [nh_hash |-> nh_hash, nh_array |-> nh_array, routes |-> routes]

SetTable(t) ==
    /\ nh_hash' = t.nh_hash
    /\ nh_array' = t.nh_array
    /\ routes' = t.routes

InHash(t) == {t.nh_hash[k] : k \in DOMAIN t.nh_hash}

\* ip4_nexthop_lookup_add(ip) from another module (the datapath's control side)
LookupAdd(ip) ==
    /\ \E r \in {ip4_nexthop_lookup_add(Table, ip)} :
           /\ SetTable(r.t)
           /\ last' = LastNone
    /\ UNCHANGED <<portVars, vlanVars, faulted, holds, pc>>

\* ip4_nexthop_incref(nh) by a holder outside the route table
Incref(idx) ==
    /\ idx \in InHash(Table)
    /\ holds[idx] < MaxHolds
    /\ SetTable(ip4_nexthop_incref(Table, idx))
    /\ holds' = [holds EXCEPT ![idx] = @ + 1]
    /\ last' = LastNone
    /\ UNCHANGED <<portVars, vlanVars, faulted, pc>>

\* ip4_nexthop_decref(nh) by a holder releasing its reference, or on a next
\* hop nobody references yet
Decref(idx) ==
    /\ idx \in InHash(Table)
    /\ holds[idx] > 0 \/ nh_array[idx].ref_count = 0
    /\ SetTable(ip4_nexthop_decref(Table, idx))
    /\ holds' = [holds EXCEPT ![idx] = IF @ > 0 THEN @ - 1 ELSE 0]
    /\ last' = LastNone
    /\ UNCHANGED <<portVars, vlanVars, faulted, pc>>

\* a route added through the next hop of gateway gw: the default route, or
\* a host route (which may go through another host's next hop)
RouteInsert(prefix, gw) ==
    /\ gw \in DOMAIN nh_hash
    /\ \E r \in {ip4_route_insert(Table, prefix, nh_hash[gw], FALSE)} :
           /\ SetTable(r.t)
           /\ last' = LastNone
    /\ UNCHANGED <<portVars, vlanVars, faulted, holds, pc>>

\* a route deleted
RouteDelete(prefix) ==
    /\ \E r \in {ip4_route_delete(Table, prefix)} :
           /\ SetTable(r.t)
           /\ last' = LastNone
    /\ UNCHANGED <<portVars, vlanVars, faulted, holds, pc>>

\* the address module marks the next hop of the router's own address
\* (LocalHost) as system-owned: LOCAL or LINK
NhMark(idx, flag) ==
    /\ idx \in InHash(Table)
    /\ nh_array[idx].ip = LocalHost
    /\ nh_array[idx].flags \cap {BR_IP4_NH_F_LOCAL, BR_IP4_NH_F_LINK} = {}
    /\ nh_array' = [nh_array EXCEPT ![idx].flags = @ \cup {flag}]
    /\ last' = LastNone
    /\ UNCHANGED <<portVars, vlanVars, faulted, nh_hash, routes, holds, pc>>

\* BR_IP4_NH_ADD
NhAdd(host, iface_id, mac, exist_ok, rfail) ==
    \* inputs that cannot matter are fixed: a request refused before the
    \* lookup, a route-table failure when no route is inserted
    /\ (host = 0 \/ iface_id \notin DOMAIN ifaces) => (mac = MacZero /\ ~exist_ok)
    /\ rfail => (host # 0 /\ iface_id \in DOMAIN ifaces /\ host \notin DOMAIN nh_hash)
    \* the next hops the run creates are all on the first port with the same
    \* address; requests that differ from them are refused or change nothing
    /\ (host # 0 /\ iface_id \in DOMAIN ifaces /\ host \notin DOMAIN nh_hash) =>
           (iface_id = Min(DOMAIN ifaces) /\ mac # MacZero)
    /\ \E req \in {[host |-> host, iface_id |-> iface_id, mac |-> mac,
                    exist_ok |-> exist_ok]} :
       \E r \in {nh4_add(Table, ifaces, req, rfail)} :
           /\ SetTable(r.t)
           /\ last' = LastNone
    /\ UNCHANGED <<portVars, vlanVars, faulted, holds, pc>>

\* BR_IP4_NH_DEL
NhDel(host, missing_ok) ==
    /\ \E req \in {[host |-> host, missing_ok |-> missing_ok]} :
       \E r \in {nh4_del(Table, req)} :
           /\ SetTable(r.t)
           /\ last' = LastNone
    /\ UNCHANGED <<portVars, vlanVars, faulted, holds, pc>>

\* interface ids a request may name: the live ones and an unknown one
ReqIfaceIds == DOMAIN TwoPorts.ifaces \cup {MaxIfaces - 1}

NhNext ==
    \/ \E ip \in Hosts : LookupAdd(ip)
    \/ \E idx \in NhIdx : Incref(idx)
    \/ \E idx \in NhIdx : Decref(idx)
    \/ \E prefix \in Prefixes, gw \in Hosts : RouteInsert(prefix, gw)
    \/ \E prefix \in Prefixes : RouteDelete(prefix)
    \/ \E idx \in NhIdx, flag \in {BR_IP4_NH_F_LOCAL, BR_IP4_NH_F_LINK} : NhMark(idx, flag)
    \/ \E host \in 0 .. MaxHost, iface_id \in ReqIfaceIds, mac \in Macs,
          exist_ok \in BOOLEAN, rfail \in BOOLEAN :
            NhAdd(host, iface_id, mac, exist_ok, rfail)
    \/ \E host \in 0 .. MaxHost, missing_ok \in BOOLEAN : NhDel(host, missing_ok)

SpecNh == NhInit /\ [][NhNext]_vars

----------------------------------------------------------------------------
(* Properties of the next-hop specification *)

\* the nh_add and nh_del requests a client can send
NhAddReqs == [host : 0 .. MaxHost, iface_id : ReqIfaceIds, mac : Macs, exist_ok : BOOLEAN]

NhDelReqs == [host : 0 .. MaxHost, missing_ok : BOOLEAN]

\* the next hops a route or another holder references
Referenced(t, h) == {i \in NhIdx : h[i] > 0 \/ \E p \in DOMAIN t.routes : t.routes[p] = i}

\* C3: every live next hop (a slot the table holds, not freed) at index i has
\* the hash map its ip to i, array[i].ip equal to that ip and ref_count >= 1,
\* and no hash entry maps to a freed (zeroed) slot.
C3_LiveNextHops ==
    /\ \A i \in NhIdx :
          nh_array[i] # NhZero =>
              /\ nh_array[i].ip \in DOMAIN nh_hash
              /\ nh_hash[nh_array[i].ip] = i
              /\ nh_array[i].ref_count >= 1
    /\ \A ip \in DOMAIN nh_hash :
          nh_array[nh_hash[ip]].ip = ip /\ nh_array[nh_hash[ip]] # NhZero

\* C3 as amended: the hash and the array agree on every next hop the table
\* holds, no hash entry maps to a zeroed slot, and ref_count >= 1 for every
\* next hop a route or a holder references (a next hop between lookup_or_add
\* and its first incref has ref_count 0).
C3_LiveNextHopsAmended ==
    /\ \A i \in NhIdx :
          nh_array[i] # NhZero =>
              /\ nh_array[i].ip \in DOMAIN nh_hash
              /\ nh_hash[nh_array[i].ip] = i
    /\ \A ip \in DOMAIN nh_hash :
          nh_array[nh_hash[ip]].ip = ip /\ nh_array[nh_hash[ip]] # NhZero
    /\ \A i \in Referenced(Table, holds) : nh_array[i].ref_count >= 1

\* a next hop with two references, one of them a holder's, next to one that
\* nothing references yet
C3_Witness ==
    /\ \E i \in InHash(Table) : nh_array[i].ref_count >= 2
    /\ \E i \in InHash(Table) : nh_array[i].ref_count = 0
    /\ \E i \in InHash(Table) : holds[i] > 0

\* the nh_list entry of req.host: reported once, with the requested iface_id
\* and mac, flagged STATIC and REACHABLE
ListedOnce(t, req) ==
    LET l == nh4_list(t)
        hits == {k \in 1 .. Len(l) : l[k].host = req.host}
    IN  /\ Cardinality(hits) = 1
        /\ \A k \in hits :
              /\ l[k].iface_id = req.iface_id
              /\ l[k].mac = req.mac
              /\ {BR_IP4_NH_F_STATIC, BR_IP4_NH_F_REACHABLE} \subseteq l[k].flags

\* C8: whenever nh_add returns success, also through the exist_ok path, the
\* next nh_list reports the host exactly once with the requested iface_id and
\* mac and with both STATIC and REACHABLE in its flags.
C8_AddThenListed ==
    \A req \in NhAddReqs, rfail \in BOOLEAN :
        LET r == nh4_add(Table, ifaces, req, rfail)
        IN  r.ret = OK => ListedOnce(r.t, req)

\* C9: after a successful nh_add, a second nh_add for the same host with the
\* identical payload and exist_ok set succeeds and changes nothing; one that
\* differs in iface_id or mac, or has exist_ok unset, returns EEXIST and
\* changes nothing.
C9_SecondAdd ==
    \A req1 \in NhAddReqs, rfail \in BOOLEAN :
        LET r1 == nh4_add(Table, ifaces, req1, rfail)
        IN  r1.ret = OK =>
            \A req2 \in {q \in NhAddReqs : q.host = req1.host} :
                LET r2 == nh4_add(r1.t, ifaces, req2, rfail)
                IN  /\ r2.t = r1.t
                    /\ IF req2.iface_id = req1.iface_id /\ req2.mac = req1.mac
                          /\ req2.exist_ok
                       THEN r2.ret = OK
                       ELSE r2.ret = EEXIST

\* C9 as amended: as C9, but a second call naming an interface id that is not
\* known is refused with the registry's error (ENODEV), before the next hop is
\* looked at; it changes nothing either.
C9_SecondAddAmended ==
    \A req1 \in NhAddReqs, rfail \in BOOLEAN :
        LET r1 == nh4_add(Table, ifaces, req1, rfail)
        IN  r1.ret = OK =>
            \A req2 \in {q \in NhAddReqs : q.host = req1.host} :
                LET r2 == nh4_add(r1.t, ifaces, req2, rfail)
                IN  /\ r2.t = r1.t
                    /\ IF req2.iface_id \notin DOMAIN ifaces THEN r2.ret = ENODEV
                       ELSE IF req2.iface_id = req1.iface_id /\ req2.mac = req1.mac
                               /\ req2.exist_ok
                       THEN r2.ret = OK
                       ELSE r2.ret = EEXIST

\* nh_add has added a host with its /32 route; a second nh_add for it is
\* answered with success, with EEXIST or with ENODEV depending on its payload
C9_Witness ==
    \E host \in DOMAIN nh_hash :
        /\ BR_IP4_NH_F_STATIC \in nh_array[nh_hash[host]].flags
        /\ Prefix(host, 32) \in DOMAIN routes
        /\ routes[Prefix(host, 32)] = nh_hash[host]
        /\ {nh4_add(Table, ifaces, req, FALSE).ret :
               req \in {q \in NhAddReqs : q.host = host}} = {OK, EEXIST, ENODEV}

\* C10: nh_del of a host whose next hop is LOCAL or LINK or has ref_count > 1
\* returns EBUSY and changes neither table; and no nh_del frees a next hop
\* that a route still references afterwards.
C10_DelBusy ==
    \A req \in NhDelReqs :
        LET r == nh4_del(Table, req)
        IN  /\ (/\ req.host \in DOMAIN nh_hash
                /\ \/ nh_array[nh_hash[req.host]].flags
                        \cap {BR_IP4_NH_F_LOCAL, BR_IP4_NH_F_LINK} # {}
                   \/ nh_array[nh_hash[req.host]].ref_count > 1)
               => (r.ret = EBUSY /\ r.t = Table)
            /\ \A i \in InHash(Table) \ InHash(r.t) :
                  \A p \in DOMAIN r.t.routes : r.t.routes[p] # i

\* the default route goes through a host that nh_add added, so that its next
\* hop has two references, a system-owned next hop is in the table, and
\* nh_del of either is refused with EBUSY
C10_Witness ==
    /\ \E host \in DOMAIN nh_hash :
          /\ DefaultRoute \in DOMAIN routes
          /\ routes[DefaultRoute] = nh_hash[host]
          /\ Prefix(host, 32) \in DOMAIN routes
          /\ nh_array[nh_hash[host]].ref_count = 2
          /\ nh4_del(Table, [host |-> host, missing_ok |-> FALSE]).ret = EBUSY
    /\ \E host \in DOMAIN nh_hash :
          /\ BR_IP4_NH_F_LINK \in nh_array[nh_hash[host]].flags
          /\ nh_array[nh_hash[host]].ref_count <= 1
          /\ nh4_del(Table, [host |-> host, missing_ok |-> TRUE]).ret = EBUSY

\* C11: whenever nh_del(host) returns success for a host that had a next hop,
\* that next hop is gone afterwards (lookup is not-found, nh_list does not
\* report it, its slot is zeroed) and no other next hop or route was removed;
\* nh_del on a host with no next hop returns ENOENT, or success when
\* missing_ok is set, and changes nothing.
C11_DelRemoves ==
    \A req \in NhDelReqs :
        LET r == nh4_del(Table, req)
            l == nh4_list(r.t)
        IN  IF req.host \in DOMAIN nh_hash
            THEN r.ret = OK =>
                   /\ ip4_nexthop_lookup(r.t, req.host).ret = ENOENT
                   /\ \A k \in 1 .. Len(l) : l[k].host # req.host
                   /\ r.t.nh_array[nh_hash[req.host]] = NhZero
                   /\ \A ip \in DOMAIN nh_hash \ {req.host} :
                         /\ ip4_nexthop_lookup(r.t, ip).idx = nh_hash[ip]
                         /\ r.t.nh_array[nh_hash[ip]] # NhZero
                   /\ \A p \in DOMAIN routes \ {Prefix(req.host, 32)} :
                         p \in DOMAIN r.t.routes /\ r.t.routes[p] = routes[p]
            ELSE /\ r.ret = (IF req.missing_ok THEN OK ELSE ENOENT)
                 /\ r.t = Table

\* C18: if nh_add returns an error (zero host, unknown iface_id, EEXIST, table
\* full, or a failure of the /32 route insert), the next-hop table is as
\* before the call: no hash entry and no array slot has been added or
\* modified.
C18_AddErrorNoChange ==
    \A req \in NhAddReqs, rfail \in BOOLEAN :
        LET r == nh4_add(Table, ifaces, req, rfail)
        IN  r.ret # OK => r.t = Table

\* C22: lookup_or_add on an absent ip returns a slot whose ip is the key and
\* whose other fields are all zero, also when the slot was used before and
\* freed by decref: every array slot that no hash entry maps to is entirely
\* zero. When the table is full the call fails and changes nothing.
C22_FreshSlotZero ==
    /\ \A i \in NhIdx \ InHash(Table) : nh_array[i] = NhZero
    /\ \A ip \in (1 .. MaxHost + 1) \ DOMAIN nh_hash :
           \A r \in {ip4_nexthop_lookup_add(Table, ip)} :
               IF FreeIdx(Table) = {}
               THEN r.ret # OK /\ r.t = Table
               ELSE /\ r.ret = OK
                    /\ r.t.nh_hash = Put(nh_hash, ip, r.idx)
                    /\ r.idx \notin InHash(Table)
                    /\ r.t.nh_array = [nh_array EXCEPT ![r.idx] = [NhZero EXCEPT !.ip = ip]]

\* a slot below a live next hop is free, so it was handed out before and
\* freed by decref, and an absent ip is about to get it
C22_Witness ==
    /\ FreeIdx(Table) # {}
    /\ \E ip \in DOMAIN nh_hash : nh_hash[ip] > Min(FreeIdx(Table))
    /\ Hosts \ DOMAIN nh_hash # {}

\* the table is full and an ip is absent
C22_FullTable == FreeIdx(Table) = {} /\ MaxHost + 1 \notin DOMAIN nh_hash

----------------------------------------------------------------------------
(* The next-hop table as a datapath reader sees it: ip4_nexthop_lookup_add and
   ip4_nexthop_decref advance one store at a time, pc holding the control
   thread's position, and every state in between is one a reader can observe. *)

\* ip4_nexthop_lookup_add up to line 48: the key is in the hash
LookupAddInsert(ip) ==
    /\ pc = PcIdle
    /\ ip4_nexthop_lookup(Table, ip).ret # OK
    /\ \E a \in {lookup_add_insert(Table, ip)} :
           /\ SetTable(a.t)
           /\ pc' = IF a.ret = OK THEN [op |-> "lookup_add", idx |-> a.idx, ip |-> ip]
                    ELSE PcIdle
    /\ last' = LastNone
    /\ UNCHANGED <<portVars, vlanVars, faulted, holds>>

\* ip4_nexthop_lookup_add line 50: the slot receives its ip
LookupAddWrite ==
    /\ pc.op = "lookup_add"
    /\ SetTable(lookup_add_write(Table, pc.idx, pc.ip))
    /\ pc' = PcIdle
    /\ last' = LastNone
    /\ UNCHANGED <<portVars, vlanVars, faulted, holds>>

\* ip4_nexthop_decref lines 56-57 (or line 60 when other references remain)
DecrefDelKey(idx) ==
    /\ pc = PcIdle
    /\ idx \in InHash(Table)
    /\ holds[idx] > 0 \/ nh_array[idx].ref_count = 0
    /\ IF nh_array[idx].ref_count <= 1
       THEN /\ SetTable(decref_del_key(Table, idx))
            /\ pc' = [op |-> "decref", idx |-> idx, ip |-> nh_array[idx].ip]
       ELSE /\ SetTable(ip4_nexthop_decref(Table, idx))
            /\ pc' = PcIdle
    /\ holds' = [holds EXCEPT ![idx] = IF @ > 0 THEN @ - 1 ELSE 0]
    /\ last' = LastNone
    /\ UNCHANGED <<portVars, vlanVars, faulted>>

\* ip4_nexthop_decref line 58: the slot is zeroed
DecrefZero ==
    /\ pc.op = "decref"
    /\ SetTable(decref_zero(Table, pc.idx))
    /\ pc' = PcIdle
    /\ last' = LastNone
    /\ UNCHANGED <<portVars, vlanVars, faulted, holds>>

\* the operations that run between two stepped calls
BetweenCalls ==
    /\ pc = PcIdle
    /\ \/ \E idx \in NhIdx : Incref(idx)
       \/ \E prefix \in Prefixes, gw \in Hosts : RouteInsert(prefix, gw)
       \/ \E prefix \in Prefixes : RouteDelete(prefix)
       \/ \E idx \in NhIdx, flag \in {BR_IP4_NH_F_LOCAL, BR_IP4_NH_F_LINK} :
             NhMark(idx, flag)

NhStepsNext ==
    \/ \E ip \in Hosts : LookupAddInsert(ip)
    \/ LookupAddWrite
    \/ \E idx \in NhIdx : DecrefDelKey(idx)
    \/ DecrefZero
    \/ BetweenCalls

SpecNhSteps == NhInit /\ [][NhStepsNext]_vars

\* C7: at every instant a datapath reader can observe, every mapping ip -> i
\* of the hash has array[i].ip = ip: a slot is written before its key is
\* inserted, and a key is removed before its slot is zeroed.
C7_ReaderSeesPublishedSlots ==
    \A ip \in DOMAIN nh_hash : nh_array[nh_hash[ip]].ip = ip

----------------------------------------------------------------------------
(* VLAN sub-interfaces (vlan.c) *)

VlanIds == 1 .. MaxVlanId

McastMac == "01:00:5e:00:00:01"

\* the MAC addresses a VLAN request carries
VlanMacs == {McastMac}

\* rte_is_multicast_ether_addr(mac)
rte_is_multicast_ether_addr(mac) == mac = McastMac

VOut(v, ret) == [v |-> v, ret |-> ret]

\* vlan_get_iface(parent_id, vlan_id): rte_hash_lookup_data
vlan_get_iface(v, parent_id, vlan_id) ==
    IF <<parent_id, vlan_id>> \in DOMAIN v.vlan_hash
    THEN v.vlan_hash[<<parent_id, vlan_id>>] ELSE NoIface

\* get_parent_port_id(parent_id, &port_id)
get_parent_port_id(v, parent_id) ==
    IF ~iface_known(v.ifaces, parent_id) THEN [ret |-> ENODEV, port_id |-> MaxEthPorts]
    ELSE IF v.ifaces[parent_id].type_id # GR_IFACE_TYPE_PORT
    THEN [ret |-> EMEDIUMTYPE, port_id |-> MaxEthPorts]
    ELSE [ret |-> OK, port_id |-> v.ifaces[parent_id].port_id]

\* iface_add_subinterface(parent, iface)
iface_add_subinterface(v, parent_id, id) ==
    [v EXCEPT !.ifaces[parent_id].subinterfaces = @ \cup {id}]

\* iface_del_subinterface(parent, iface)
iface_del_subinterface(v, parent_id, id) ==
    [v EXCEPT !.ifaces[parent_id].subinterfaces = @ \ {id}]

\* a call issued to the DDF (the driver framework) is noted in v.ddf_calls
DdfCall(v, call) == [v EXCEPT !.ddf_calls = @ \cup {call}]

\* rte_eth_dev_vlan_filter(port_id, vlan_id, on): the filter is switched
\* unless the DDF reports an error
rte_eth_dev_vlan_filter(v, port_id, vlan_id, on, err) ==
    IF err # OK THEN VOut(DdfCall(v, <<"vlan_filter", port_id, vlan_id, on>>), err)
    ELSE VOut([DdfCall(v, <<"vlan_filter", port_id, vlan_id, on>>)
                  EXCEPT !.vlan_filters =
                      IF on THEN @ \cup {<<port_id, vlan_id>>}
                      ELSE @ \ {<<port_id, vlan_id>>}], OK)

RECURSIVE iface_add_eth_addr(_, _, _, _)
\* iface_add_eth_addr(iface_id, mac): the add_eth_addr callback of the
\* interface's type; a VLAN forwards multicast addresses to its parent
\* (iface_vlan_add_eth_addr)
iface_add_eth_addr(v, iface_id, mac, err) ==
    IF ~iface_known(v.ifaces, iface_id) THEN VOut(v, ENODEV)
    ELSE IF v.ifaces[iface_id].type_id = GR_IFACE_TYPE_VLAN
    THEN IF ~rte_is_multicast_ether_addr(mac) THEN VOut(v, EINVAL)
         ELSE iface_add_eth_addr(v, v.ifaces[iface_id].parent_id, mac, err)
    ELSE IF err # OK THEN VOut(DdfCall(v, <<"mac_addr_add", iface_id, mac>>), err)
    ELSE VOut([DdfCall(v, <<"mac_addr_add", iface_id, mac>>)
                  EXCEPT !.eth_addrs = @ \cup {<<iface_id, mac>>}], OK)

RECURSIVE iface_del_eth_addr(_, _, _, _)
\* iface_del_eth_addr(iface_id, mac): the del_eth_addr callback of the
\* interface's type (iface_vlan_del_eth_addr for a VLAN)
iface_del_eth_addr(v, iface_id, mac, err) ==
    IF ~iface_known(v.ifaces, iface_id) THEN VOut(v, ENODEV)
    ELSE IF v.ifaces[iface_id].type_id = GR_IFACE_TYPE_VLAN
    THEN IF ~rte_is_multicast_ether_addr(mac) THEN VOut(v, EINVAL)
         ELSE iface_del_eth_addr(v, v.ifaces[iface_id].parent_id, mac, err)
    ELSE IF err # OK THEN VOut(DdfCall(v, <<"mac_addr_remove", iface_id, mac>>), err)
    ELSE VOut([DdfCall(v, <<"mac_addr_remove", iface_id, mac>>)
                  EXCEPT !.eth_addrs = @ \ {<<iface_id, mac>>}], OK)

\* the call of iface_vlan_reconfig that fails, and how
VlanFailPoints ==
    {"none", "vlan_filter_disable", "vlan_filter_enable", "vlan_filter_enable_notsup",
     "rte_hash_add_key_data", "add_eth_addr"}

\* lines 86-100: the old key, the old parent's link and the old filter go
vlan_drop_old_key(v, id, fail) ==
    LET cur == v.ifaces[id]
        v1 == iface_del_subinterface(
                  [v EXCEPT !.vlan_hash = Remove(@, <<cur.parent_id, cur.vlan_id>>)],
                  cur.parent_id, id)
        g == get_parent_port_id(v1, cur.parent_id)
    IN  IF g.ret # OK THEN VOut(v1, g.ret)
        ELSE \* remove previous vlan filter (ignore errors)
             VOut(rte_eth_dev_vlan_filter(v1, g.port_id, cur.vlan_id, FALSE,
                      IF fail = "vlan_filter_disable" THEN EIO ELSE OK).v, OK)

\* lines 76-113: set_attrs & (GR_VLAN_SET_PARENT | GR_VLAN_SET_VLAN)
vlan_set_key(v, id, reconfig, next, fail) ==
    LET next_key == <<next.parent_id, next.vlan_id>>
        g == get_parent_port_id(v, next.parent_id)
    IN  IF g.ret # OK THEN VOut(v, g.ret)
        ELSE IF next_key \in DOMAIN v.vlan_hash THEN VOut(v, EADDRINUSE)
        ELSE
        Only({IF d.ret # OK THEN d
              ELSE
              Only({IF f.ret \notin {OK, ENOTSUP} THEN f
                    ELSE
                    LET v3 == iface_add_subinterface(
                                  [f.v EXCEPT !.ifaces[id].parent_id = next.parent_id,
                                              !.ifaces[id].vlan_id = next.vlan_id],
                                  next.parent_id, id)
                    IN  IF fail = "rte_hash_add_key_data" THEN VOut(v3, ENOSPC)
                        ELSE VOut([v3 EXCEPT !.vlan_hash = Put(@, next_key, id)], OK)
                    : f \in {rte_eth_dev_vlan_filter(d.v, g.port_id, next.vlan_id, TRUE,
                                 IF fail = "vlan_filter_enable" THEN EIO
                                 ELSE IF fail = "vlan_filter_enable_notsup" THEN ENOTSUP
                                 ELSE OK)}})
              : d \in {IF reconfig THEN vlan_drop_old_key(v, id, fail)
                       ELSE VOut(v, OK)}})

\* lines 115-124: set_attrs & GR_VLAN_SET_MAC; cur_parent is the parent the
\* VLAN had when the call started
vlan_set_mac(v, id, reconfig, cur_parent, cur_mac, next, fail) ==
    LET v1 == IF reconfig THEN iface_del_eth_addr(v, cur_parent, cur_mac, OK).v ELSE v
        a == iface_add_eth_addr(v1, next.parent_id, next.mac,
                                IF fail = "add_eth_addr" THEN EIO ELSE OK)
    IN  IF a.ret # OK THEN a
        ELSE VOut([a.v EXCEPT !.ifaces[id].mac = next.mac], OK)

\* lines 126-131: the common attributes
vlan_set_common(v, id, set_attrs, common) ==
    [v EXCEPT !.ifaces[id].flags = IF BR_IFACE_SET_FLAGS \in set_attrs
                                   THEN common.flags ELSE @,
              !.ifaces[id].mtu = IF BR_IFACE_SET_MTU \in set_attrs
                                 THEN common.mtu ELSE @,
              !.ifaces[id].vrf_id = IF BR_IFACE_SET_VRF \in set_attrs
                                    THEN common.vrf_id ELSE @]

\* iface_vlan_reconfig(iface, set_attrs, flags, mtu, vrf_id, api_info)
iface_vlan_reconfig(v, id, set_attrs, common, next, fail) ==
    LET cur == v.ifaces[id]
        reconfig == set_attrs # IFACE_SET_ALL
    IN  IF reconfig /\ ~iface_known(v.ifaces, cur.parent_id) THEN VOut(v, ENODEV)
        ELSE IF ~iface_known(v.ifaces, next.parent_id) THEN VOut(v, ENODEV)
        ELSE
        Only({IF k.ret # OK THEN k
              ELSE
              Only({IF m.ret # OK THEN m
                    ELSE VOut(vlan_set_common(m.v, id, set_attrs, common), OK)
                    : m \in {IF GR_VLAN_SET_MAC \in set_attrs
                             THEN vlan_set_mac(k.v, id, reconfig, cur.parent_id,
                                               cur.mac, next, fail)
                             ELSE VOut(k.v, OK)}})
              : k \in {IF set_attrs \cap {GR_VLAN_SET_PARENT, GR_VLAN_SET_VLAN} # {}
                       THEN vlan_set_key(v, id, reconfig, next, fail)
                       ELSE VOut(v, OK)}})

\* the DDF call of iface_vlan_fini that fails
VlanFiniFailPoints == {"none", "vlan_filter_disable", "del_eth_addr"}

\* iface_vlan_fini(iface)
iface_vlan_fini(v, id, ffail) ==
    LET vlan == v.ifaces[id]
        g == get_parent_port_id(v, vlan.parent_id)
    IN  IF g.ret # OK THEN VOut(v, g.ret)
        ELSE
        LET v1 == [v EXCEPT !.vlan_hash = Remove(@, <<vlan.parent_id, vlan.vlan_id>>)]
            f == rte_eth_dev_vlan_filter(v1, g.port_id, vlan.vlan_id, FALSE,
                     IF ffail = "vlan_filter_disable" THEN EIO ELSE OK)
            m == iface_del_eth_addr(f.v, vlan.parent_id, vlan.mac,
                     IF ffail = "del_eth_addr" THEN EIO ELSE OK)
            status == IF f.ret # OK THEN f.ret ELSE m.ret
        IN  VOut(iface_del_subinterface(m.v, vlan.parent_id, id), status)

\* iface_vlan_init(iface, api_info)
iface_vlan_init(v, id, next, fail) ==
    LET iface == v.ifaces[id]
    IN  Only({IF r.ret # OK THEN VOut(iface_vlan_fini(r.v, id, "none").v, r.ret)
              ELSE r
              : r \in {iface_vlan_reconfig(v, id, IFACE_SET_ALL,
                           [flags |-> iface.flags, mtu |-> iface.mtu,
                            vrf_id |-> iface.vrf_id],
                           next, fail)}})

\* the interface iface_create hands to init: common attributes from the
\* request, info zeroed
VlanInfoZero(common) ==
    [type_id |-> GR_IFACE_TYPE_VLAN, parent_id |-> 0, vlan_id |-> 0, mac |-> MacZero,
     flags |-> common.flags, mtu |-> common.mtu, vrf_id |-> common.vrf_id,
     subinterfaces |-> {}]

\* iface_create(VLAN, api_info): fresh id, type.init; the id is released
\* again when init fails
iface_create_vlan(v, common, next, fail) ==
    LET free == IfaceIds \ DOMAIN v.ifaces
    IN  IF free = {} THEN VOut(v, ENOSPC)
        ELSE
        LET id == Min(free)
        IN  Only({IF r.ret # OK THEN VOut([r.v EXCEPT !.ifaces = Remove(@, id)], r.ret)
                  ELSE r
                  : r \in {iface_vlan_init(
                               [v EXCEPT !.ifaces = Put(@, id, VlanInfoZero(common))],
                               id, next, fail)}})

\* iface_destroy(id) on a VLAN: type.fini, then the id is released
iface_destroy_vlan(v, id, ffail) ==
    Only({VOut([r.v EXCEPT !.ifaces = Remove(@, id)], r.ret)
          : r \in {iface_vlan_fini(v, id, ffail)}})

----------------------------------------------------------------------------
(* Specification of the VLAN handlers, on top of two configured ports *)

\* the state a VLAN handler starts in; ddf_calls collects the DDF calls the
\* handler issues
VWorld == [ifaces |-> ifaces, vlan_hash |-> vlan_hash, vlan_filters |-> vlan_filters,
           eth_addrs |-> eth_addrs, ddf_calls |-> {}]

SetVWorld(v) ==
    /\ ifaces' = v.ifaces
    /\ vlan_hash' = v.vlan_hash
    /\ vlan_filters' = v.vlan_filters
    /\ eth_addrs' = v.eth_addrs

VlanInit ==
    /\ InitTwoPorts
    /\ InitNh
    /\ InitVlan
    /\ last = LastNone
    /\ faulted = FALSE

VlanIfaceIds == {i \in DOMAIN ifaces : ifaces[i].type_id = GR_IFACE_TYPE_VLAN}

\* parent ids a request may name: the two ports and the first id after them,
\* which is a VLAN or not known
ReqParentIds == DOMAIN TwoPorts.ifaces \cup {Cardinality(DOMAIN TwoPorts.ifaces)}

\* the common attributes every request of the model carries
CommonAttrs == [flags |-> 0, mtu |-> 1500, vrf_id |-> 0]

\* the masks a VLAN reconfig request is drawn from
VlanMasks ==
    {{}, {GR_VLAN_SET_PARENT}, {GR_VLAN_SET_VLAN}, {GR_VLAN_SET_PARENT, GR_VLAN_SET_VLAN},
     {GR_VLAN_SET_MAC}, {BR_IFACE_SET_MTU}}

\* iface_create(VLAN)
VlanCreate(parent_id, vlan_id, mac, fail) ==
    /\ Cardinality(VlanIfaceIds) < MaxVlans
    /\ fail # "vlan_filter_disable"
    /\ Inject(<<fail>>)
    /\ \E r \in {iface_create_vlan(VWorld,
                     CommonAttrs,
                     [parent_id |-> parent_id, vlan_id |-> vlan_id, mac |-> mac],
                     fail)} :
           /\ SetVWorld(r.v)
           /\ last' = LastNone
    /\ UNCHANGED <<workers, port_ifaces, ethdevs, wide_shift, window, nhVars>>

\* iface_reconfig(id) on a VLAN
VlanReconfig(id, set_attrs, parent_id, vlan_id, mac, fail) ==
    /\ id \in VlanIfaceIds
    \* inputs the call does not read are fixed
    /\ set_attrs \cap {GR_VLAN_SET_PARENT, GR_VLAN_SET_VLAN} = {} =>
           (vlan_id = ifaces[id].vlan_id /\ fail \in {"none", "add_eth_addr"})
    /\ GR_VLAN_SET_MAC \notin set_attrs => (mac = ifaces[id].mac /\ fail # "add_eth_addr")
    \* a request that sets the MAC alone names a PORT parent: through a
    \* parent of another type the callbacks of that type would run on the
    \* current PORT parent
    /\ set_attrs = {GR_VLAN_SET_MAC} => parent_id \in PortIfaceIds
    /\ Inject(<<fail>>)
    /\ \E r \in {iface_vlan_reconfig(VWorld, id, set_attrs,
                     CommonAttrs,
                     [parent_id |-> parent_id, vlan_id |-> vlan_id, mac |-> mac],
                     fail)} :
           /\ SetVWorld(r.v)
           /\ last' = LastNone
    /\ UNCHANGED <<workers, port_ifaces, ethdevs, wide_shift, window, nhVars>>

\* iface_destroy(id) on a VLAN
VlanDestroy(id, ffail) ==
    /\ id \in VlanIfaceIds
    /\ Inject(<<ffail>>)
    /\ \E r \in {iface_destroy_vlan(VWorld, id, ffail)} :
           /\ SetVWorld(r.v)
           /\ last' = LastNone
    /\ UNCHANGED <<workers, port_ifaces, ethdevs, wide_shift, window, nhVars>>

VlanNext ==
    \/ \E parent_id \in ReqParentIds, vlan_id \in VlanIds, mac \in VlanMacs,
          fail \in VlanFailPoints :
            VlanCreate(parent_id, vlan_id, mac, fail)
    \/ \E id \in IfaceIds, set_attrs \in VlanMasks, parent_id \in ReqParentIds,
          vlan_id \in VlanIds, mac \in VlanMacs, fail \in VlanFailPoints :
            VlanReconfig(id, set_attrs, parent_id, vlan_id, mac, fail)
    \/ \E id \in IfaceIds, ffail \in VlanFiniFailPoints : VlanDestroy(id, ffail)

SpecVlan == VlanInit /\ [][VlanNext]_vars

\* C4: for every live VLAN interface V the lookup of (V.parent_id, V.vlan_id)
\* in vlan_hash returns V, and no two live VLAN interfaces have the same
\* (parent_id, vlan_id).
C4_VlanHashIndex ==
    /\ \A i \in VlanIfaceIds :
          vlan_get_iface(VWorld, ifaces[i].parent_id, ifaces[i].vlan_id) = i
    /\ \A i, j \in VlanIfaceIds :
          i # j => <<ifaces[i].parent_id, ifaces[i].vlan_id>>
                     # <<ifaces[j].parent_id, ifaces[j].vlan_id>>

\* C12: creating a VLAN whose (parent_id, vlan_id) is already used by a live
\* VLAN fails with EADDRINUSE and has no side effects: no DDF call (VLAN
\* filter enable or disable, MAC filter add or remove) is issued on any port,
\* and vlan_hash, every parent's subinterfaces set and the existing VLAN are
\* unchanged.
C12_CreateConflict ==
    \A parent_id \in ReqParentIds, vlan_id \in VlanIds, mac \in VlanMacs :
        (/\ Cardinality(VlanIfaceIds) < MaxVlans
         /\ \E i \in VlanIfaceIds :
               ifaces[i].parent_id = parent_id /\ ifaces[i].vlan_id = vlan_id)
        => LET r == iface_create_vlan(VWorld, CommonAttrs,
                        [parent_id |-> parent_id, vlan_id |-> vlan_id, mac |-> mac],
                        "none")
           IN  /\ r.ret = EADDRINUSE
               /\ r.v.ddf_calls = {}
               /\ r.v.vlan_hash = vlan_hash
               /\ r.v.ifaces = ifaces

\* common attributes other than those the interfaces have
OtherAttrs == [flags |-> 1, mtu |-> 9000, vrf_id |-> 1]

\* C15: iface_reconfig with an empty attribute mask is a no-op for both PORT
\* and VLAN interfaces, whatever values common_attrs and api_info carry: the
\* interface's attributes and info, the workers' queue maps with their
\* enabled flags, vlan_hash, the subinterface sets and the DDF device state
\* are the same after the call as before it.
C15_EmptyMaskNoOp ==
    /\ \A id \in PortIfaceIds, n_rxq \in 0 .. MaxRxq, fail \in ReconfigFailPoints :
          (fail = "none" \/ ~faulted) =>
              iface_port_reconfig(World, id, {}, [n_rxq |-> n_rxq, n_txq |-> 0],
                                  fail).w = World
    /\ \A id \in VlanIfaceIds, parent_id \in ReqParentIds, vlan_id \in VlanIds,
          mac \in VlanMacs \cup {MacZero}, common \in {CommonAttrs, OtherAttrs},
          fail \in VlanFailPoints :
          (fail = "none" \/ ~faulted) =>
              iface_vlan_reconfig(VWorld, id, {}, common,
                  [parent_id |-> parent_id, vlan_id |-> vlan_id, mac |-> mac],
                  fail).v = VWorld

\* C17: if vlan.reconfig of a live VLAN (mask other than ALL) returns an error
\* at any step, its partial side effects are undone: vlan_hash still maps the
\* VLAN's (parent_id, vlan_id) to it, its parent's subinterfaces still contain
\* it, and its parent_id, vlan_id and mac are as before the call.
C17_ReconfigErrorUndone ==
    \A id \in VlanIfaceIds, set_attrs \in VlanMasks, parent_id \in ReqParentIds,
       vlan_id \in VlanIds, mac \in VlanMacs, fail \in VlanFailPoints :
        LET cur == ifaces[id]
            r == iface_vlan_reconfig(VWorld, id, set_attrs, CommonAttrs,
                     [parent_id |-> parent_id, vlan_id |-> vlan_id, mac |-> mac],
                     fail)
        IN  (/\ fail = "none" \/ ~faulted
             /\ vlan_get_iface(VWorld, cur.parent_id, cur.vlan_id) = id
             /\ cur.parent_id \in PortIfaceIds
             /\ id \in ifaces[cur.parent_id].subinterfaces
             /\ r.ret # OK)
            => /\ vlan_get_iface(r.v, cur.parent_id, cur.vlan_id) = id
               /\ id \in r.v.ifaces[cur.parent_id].subinterfaces
               /\ r.v.ifaces[id].parent_id = cur.parent_id
               /\ r.v.ifaces[id].vlan_id = cur.vlan_id
               /\ r.v.ifaces[id].mac = cur.mac

----------------------------------------------------------------------------
(* PORT and VLAN interfaces together: the VLAN requests, and the destruction
   of the PORT interfaces the VLANs sit on *)

\* iface_destroy(id) on a PORT, with every DDF call succeeding
PortDestroy(id) ==
    /\ id \in PortIfaceIds
    /\ \E r \in {iface_destroy_port(World, id, "none", NoCascadeFail)} :
           /\ SetWorld(r.w)
           /\ window' = r.win
    /\ last' = LastNone
    /\ UNCHANGED <<nhVars, vlanVars, faulted>>

IfacesNext ==
    \/ VlanNext
    \/ \E id \in IfaceIds : PortDestroy(id)

SpecIfaces == VlanInit /\ [][IfacesNext]_vars

\* C16: in every state reached by create, reconfig and destroy operations on
\* PORT and VLAN interfaces, every live VLAN interface's parent_id is the id
\* of a live interface of type PORT.
C16_VlanParentIsPort ==
    \A i \in VlanIfaceIds : ifaces[i].parent_id \in PortIfaceIds

\* C19: vlan.fini always removes the VLAN's (parent_id, vlan_id) key from
\* vlan_hash and detaches the VLAN from its parent's subinterfaces, whatever
\* errors the parent lookup, the VLAN-filter disable and the MAC removal
\* report, and returns the first non-zero error among its steps (0 if none);
\* after vlan.fini no vlan_hash entry refers to the destroyed interface.
C19_FiniRemovesKey ==
    \A id \in VlanIfaceIds, ffail \in VlanFiniFailPoints :
        LET vlan == ifaces[id]
            r == iface_vlan_fini(VWorld, id, ffail)
        IN  (ffail = "none" \/ ~faulted) =>
            /\ <<vlan.parent_id, vlan.vlan_id>> \notin DOMAIN r.v.vlan_hash
            /\ \A k \in DOMAIN r.v.vlan_hash : r.v.vlan_hash[k] # id
            /\ \A j \in DOMAIN r.v.ifaces : id \notin r.v.ifaces[j].subinterfaces
            /\ (ffail # "none") => r.ret # OK
            /\ (ffail = "none" /\ vlan.parent_id \in PortIfaceIds) => r.ret = OK

----------------------------------------------------------------------------
(* port_queue_assign on its own, on ports wide enough for the 64-bit word *)

\* the first n_rxq whose highest queue id needs a shift count of 32
WideRxq == 33

\* a run is not started on a worker that already holds this many rxq entries
MaxQmaps == 36

\* the n_rxq a run is made with: a few queues, or up to the int width and past it
AssignSizes == (1 .. MaxRxq) \cup ((WideRxq - 2) .. WideRxq)

AssignInit ==
    /\ wide_shift \in WideShifts
    /\ \E w \in {TwoPorts} :
           /\ workers = w.workers
           /\ ifaces = w.ifaces
           /\ port_ifaces = w.port_ifaces
           /\ ethdevs = w.ethdevs
    /\ window = <<>>
    /\ InitNh
    /\ InitVlan
    /\ last = LastNone
    /\ faulted = FALSE

\* one run of port_queue_assign(p) for the port of interface id, n_rxq set
QueueAssign(id, n_rxq) ==
    /\ id \in PortIfaceIds
    /\ \A k \in 1 .. Len(workers) : Len(workers[k].rxqs) < MaxQmaps
    /\ \E p \in {[ifaces[id] EXCEPT !.n_rxq = n_rxq]} :
           /\ ifaces' = [ifaces EXCEPT ![id] = p]
           /\ workers' = port_queue_assign(workers, p,
                                           rte_eth_dev_socket_id(World, p.port_id),
                                           wide_shift)
    /\ last' = LastNone
    /\ UNCHANGED <<port_ifaces, ethdevs, wide_shift, window, faulted, nhVars, vlanVars>>

AssignNext == \E id \in IfaceIds, n_rxq \in AssignSizes : QueueAssign(id, n_rxq)

SpecAssign == AssignInit /\ [][AssignNext]_vars

\* the queue ids of port_id found in the rxq arrays of the workers
HeldIds(ws, port_id) ==
    UNION {{ws[k].rxqs[i].queue_id :
                i \in {j \in 1 .. Len(ws[k].rxqs) : ws[k].rxqs[j].port_id = port_id}}
           : k \in 1 .. Len(ws)}

\* the entries of port_id in one array, as a set
QmapSet(a, port_id) == {a[i] : i \in {j \in 1 .. Len(a) : a[j].port_id = port_id}}

\* the number of entries of port_id in one array
QmapCount(a, port_id) == Cardinality({j \in 1 .. Len(a) : a[j].port_id = port_id})

\* the last worker, in iteration order, on the socket (any worker for SOCKET_ID_ANY)
LastWorkerOn(ws, socket_id) ==
    LET on == {0} \cup {k \in 1 .. Len(ws) :
                           socket_id = SOCKET_ID_ANY
                           \/ socket_id = numa_node_of_cpu(ws[k].cpu_id)}
    IN  CHOOSE k \in on : \A j \in on : j <= k

\* the ids of S in increasing order, as rxq entries of port_id with enabled = false
RECURSIVE Increasing(_, _)
Increasing(S, port_id) ==
    IF S = {} THEN <<>>
    ELSE <<QueueMap(port_id, Min(S), FALSE)>> \o Increasing(S \ {Min(S)}, port_id)

\* what one run from ws to ws2 for p must have done to the rxq arrays
AssignedAsStated(ws, ws2, p, socket_id) ==
    LET pid == p.port_id
        missing == (0 .. p.n_rxq - 1) \ HeldIds(ws, pid)
        m == Cardinality(missing)
        dw == LastWorkerOn(ws, socket_id)
        kept(k) == {e \in QmapSet(ws[k].rxqs, pid) : e.queue_id < p.n_rxq}
    IN  /\ Len(ws2) = Len(ws)
        /\ \A k \in 1 .. Len(ws) :
               LET a == ws2[k].rxqs
                   n == IF k = dw THEN Len(a) - m ELSE Len(a)
               IN  /\ n >= 0
                   /\ QmapSet(SubSeq(a, 1, n), pid) = kept(k)
                   /\ QmapCount(SubSeq(a, 1, n), pid) = Cardinality(kept(k))
                   /\ k = dw => SubSeq(a, n + 1, Len(a)) = Increasing(missing, pid)

\* a second run from ws2 to ws3 left the sets of entries of the port alone
SameQmapSets(ws2, ws3, port_id) ==
    /\ Len(ws3) = Len(ws2)
    /\ \A k \in 1 .. Len(ws2) :
           /\ QmapSet(ws3[k].rxqs, port_id) = QmapSet(ws2[k].rxqs, port_id)
           /\ QmapSet(ws3[k].txqs, port_id) = QmapSet(ws2[k].txqs, port_id)

\* C20: each run of the queue assignment for a port keeps the rxq entries below
\* n_rxq on the worker that holds them, removes those at or above n_rxq, and
\* appends exactly the missing ids, in increasing order and disabled, to the
\* last worker on the socket of the device; a second run with the same n_rxq
\* and workers leaves the sets of rxq and txq entries of the port unchanged
C20_AssignStable ==
    \A id \in PortIfaceIds, n_rxq \in AssignSizes :
        \A p \in {[ifaces[id] EXCEPT !.n_rxq = n_rxq]} :
            \A socket_id \in {rte_eth_dev_socket_id(World, p.port_id)} :
                \A ws2 \in {port_queue_assign(workers, p, socket_id, wide_shift)} :
                    /\ AssignedAsStated(workers, ws2, p, socket_id)
                    /\ \A ws3 \in {port_queue_assign(ws2, p, socket_id, wide_shift)} :
                           SameQmapSets(ws2, ws3, p.port_id)

\* the (worker, index) positions of the rxq entries of port_id for queue q,
\* whatever the length of the arrays
RxqPositions(ws, port_id, q) ==
    UNION {{<<k, i>> : i \in {j \in 1 .. Len(ws[k].rxqs) :
                                /\ ws[k].rxqs[j].port_id = port_id
                                /\ ws[k].rxqs[j].queue_id = q}}
           : k \in 1 .. Len(ws)}

\* C21: for every n_rxq the run is made with, the word of assigned ids has a
\* bit of its own for each queue id below n_rxq (2^q at 64-bit width, no
\* overflow, no id of 32..63 aliased onto 0..31), and after the run each id
\* of 0..n_rxq-1 is held by exactly one worker
C21_OwnBitEach ==
    \A id \in PortIfaceIds, n_rxq \in AssignSizes :
        \A p \in {[ifaces[id] EXCEPT !.n_rxq = n_rxq]} :
            /\ \A q \in 0 .. (n_rxq - 1) : Shl1(q, wide_shift) = {q}
            /\ \A ws2 \in {port_queue_assign(workers, p,
                                             rte_eth_dev_socket_id(World, p.port_id),
                                             wide_shift)} :
                   \A q \in 0 .. (n_rxq - 1) :
                       Cardinality(RxqPositions(ws2, p.port_id, q)) = 1

====
